---- MODULE Spec2Model ----
(***************************************************************************)
(* Project SPARK v2: the Drive change harvester of src/index.js (first     *)
(* program of the file, lines 1-315).  The process-global cursor           *)
(* lastPageToken, the parent cache, the /drive/notify, /test/drive-notify  *)
(* and /drive/register handlers and harvestChangesAndDispatch are modelled *)
(* as a state machine.  A handler runs from one network await to the next  *)
(* as one atomic step (Node's run-to-completion); awaits that resolve      *)
(* without I/O (a parent-cache hit) do not let another handler in.         *)
(*                                                                         *)
(* The remote change feed is a growing log; a page token is a position in  *)
(* the log (1 = first change) and the start token is the position after    *)
(* the last change.  graph is the remote drive's parent links as files.get *)
(* reports them; walk is one call of isInSubtree taken on its own, over an *)
(* arbitrary parent graph; call is one call of detectCallType.             *)
(***************************************************************************)
EXTENDS Integers, Sequences, FiniteSets, TLC

VARIABLES env, script, lossy, feed, lastPageToken, parentCache, pass, graph, walk, call

vars == <<env, script, lossy, feed, lastPageToken, parentCache, pass, graph, walk, call>>

(* ------------------------------ bounds --------------------------------- *)

\* Longest change log the remote produces.
MaxFeed == 3
\* Most change entries the remote puts in one page.
PageSize == 2

\* The requests the model lets in, in the order they arrive; each is handled
\* by one of /drive/notify, /test/drive-notify and /drive/register.
Passes == {1, 2}

\* The starting points of the change log in the cycle of change kinds.
Scripts == {1, 3, 6}

(* --------------------------- program constants ------------------------- *)

\* let lastPageToken = null; also nextPageToken || null and newStart = null.
Null == 0

\* "application/vnd.google-apps.folder"
FOLDER_MIME == <<"a", "p", "p", "l", "i", "c", "a", "t", "i", "o", "n", "/", "v", "n", "d", ".",
                 "g", "o", "o", "g", "l", "e", "-", "a", "p", "p", "s", ".",
                 "f", "o", "l", "d", "e", "r">>

AUDIO_EXTS == { <<".", "m", "4", "a">>, <<".", "m", "p", "3">>, <<".", "w", "a", "v">>,
                <<".", "o", "g", "g">>, <<".", "f", "l", "a", "c">>, <<".", "a", "a", "c">>,
                <<".", "m", "4", "b">> }

AUDIO_PREFIX == <<"a", "u", "d", "i", "o", "/">>

\* The fields of the file resource that changes.list is asked to return.
ListFileFields == {"name", "mimeType", "parents", "webViewLink", "webContentLink",
                   "createdTime", "modifiedTime"}

\* DRIVE_FOLDER_ID: the id of the watched root folder.
DRIVE_FOLDER_ID == "root"

(* ------------------------------ strings -------------------------------- *)

Upper == <<"A", "B", "C", "D", "E", "F", "G", "H", "I", "J", "K", "L", "M",
           "N", "O", "P", "Q", "R", "S", "T", "U", "V", "W", "X", "Y", "Z">>
Lower == <<"a", "b", "c", "d", "e", "f", "g", "h", "i", "j", "k", "l", "m",
           "n", "o", "p", "q", "r", "s", "t", "u", "v", "w", "x", "y", "z">>

toLowerCase(s) ==
    [k \in 1..Len(s) |->
        IF \E j \in 1..Len(Upper) : Upper[j] = s[k]
        THEN Lower[CHOOSE j \in 1..Len(Upper) : Upper[j] = s[k]]
        ELSE s[k]]

startsWith(s, pre) ==
    /\ Len(pre) <= Len(s)
    /\ SubSeq(s, 1, Len(pre)) = pre

endsWith(s, suf) ==
    /\ Len(suf) <= Len(s)
    /\ SubSeq(s, Len(s) - Len(suf) + 1, Len(s)) = suf

isAudio(name, mime) ==
    \/ startsWith(mime, AUDIO_PREFIX)
    \/ \E ext \in AUDIO_EXTS : endsWith(toLowerCase(name), ext)

Range(s) == {s[k] : k \in 1..Len(s)}

\* String.prototype.includes
includes(s, sub) ==
    \E i \in 1..(Len(s) - Len(sub) + 1) : SubSeq(s, i, i + Len(sub) - 1) = sub

INCOMING == <<"i", "n", "c", "o", "m", "i", "n", "g">>
OUTGOING == <<"o", "u", "t", "g", "o", "i", "n", "g">>

\* A direction test that looks for "outgoing" first.
detectCallTypeOutgoingFirst(name) ==
    LET n == toLowerCase(name) IN
    IF includes(n, OUTGOING) THEN "outgoing"
    ELSE IF includes(n, INCOMING) THEN "incoming"
    ELSE "unknown"

detectCallType(name) ==
    LET n == toLowerCase(name) IN
    IF includes(n, INCOMING) THEN "incoming"
    ELSE IF includes(n, OUTGOING) THEN "outgoing"
    ELSE "unknown"

\* No call of detectCallType has been made.
NoCall == [name |-> <<>>, callType |-> "none"]

(* --------------------------- the remote drive -------------------------- *)

\* The items of the remote drive: name and mimeType as the feed reports them,
\* parents as files.get reports them.  drv is the storage root.
Ids == {"drv", "root", "out", "sub", "a", "b", "n", "x"}

NoFile == "nofile"

Files ==
    [id \in Ids |->
        CASE id = "a" -> [name |-> <<"I", "n", ".", "M", "4", "A">>, mimeType |-> <<>>,
                          parents |-> <<"sub">>]
          [] id = "b" -> [name |-> <<"c", "l", "i", "p">>,
                          mimeType |-> <<"a", "u", "d", "i", "o", "/", "w", "a", "v">>,
                          parents |-> <<"root">>]
          [] id = "n" -> [name |-> <<"n", ".", "t", "x", "t">>,
                          mimeType |-> <<"t", "e", "x", "t", "/", "p">>,
                          parents |-> <<"root">>]
          [] id = "x" -> [name |-> <<"x", ".", "m", "p", "3">>, mimeType |-> <<>>,
                          parents |-> <<"out">>]
          [] id = "sub" -> [name |-> <<"s", "u", "b">>, mimeType |-> FOLDER_MIME,
                            parents |-> <<"root">>]
          [] id = "out" -> [name |-> <<"o", "u", "t">>, mimeType |-> FOLDER_MIME,
                            parents |-> <<"drv">>]
          [] id = "root" -> [name |-> <<"r", "o", "o", "t">>, mimeType |-> FOLDER_MIME,
                             parents |-> <<"drv">>]
          [] OTHER -> [name |-> <<"d", "r", "v">>, mimeType |-> FOLDER_MIME,
                       parents |-> <<>>]]

\* A change entry as changes.list returns it: file is the id of the changed
\* item's file resource (NoFile: the change carries no file resource, as for a
\* removed item) and idServed says whether that resource carries its id field.
Entry(f, served) == [file |-> f, idServed |-> f # NoFile /\ served]

\* The feed serves the id of a file resource when changes.list asks for it; when
\* the request leaves it out of the field list the feed is free to omit it.
Served(b) == ("id" \in ListFileFields) \/ b

\* The kinds of change the remote produces, as a cycle; a run's change log is
\* the cycle read from a starting point chosen initially (script).
Kinds == << Entry("sub", TRUE), Entry("x", TRUE), Entry("a", TRUE), Entry("a", TRUE),
            Entry("n", TRUE), Entry("a", Served(FALSE)), Entry(NoFile, FALSE),
            Entry("b", TRUE) >>

ChangeAt(s, k) == Kinds[((s + k - 2) % Len(Kinds)) + 1]

\* getStartPageToken: the position after the last change.
StartPageToken(fd) == Len(fd) + 1

\* True subtree membership in the remote drive: the root folder is reachable
\* from the item by following parent links.
RECURSIVE Reaches(_, _, _)
Reaches(id, target, fuel) ==
    /\ fuel > 0
    /\ \E p \in Range(Files[id].parents) : p = target \/ Reaches(p, target, fuel - 1)

InSubtree(id) == Reaches(id, DRIVE_FOLDER_ID, Cardinality(Ids))

(* ------------------------------ the passes ----------------------------- *)

\* A call of isInSubtree taken on its own: its arguments (start, target), its
\* locals stack and seen, and its return value.  resolved records the
\* identifiers getParents was called for, twice that one was resolved again.
IdleWalk ==
    [pc |-> "idle", start |-> NoFile, target |-> NoFile, stack |-> <<>>, seen |-> {},
     resolved |-> {}, twice |-> FALSE, result |-> FALSE]

\* One trigger request and the pass it runs.  pc is the await the handler is
\* suspended at; nextToken, newStart, changes (the positions of the page's
\* entries not yet finished, the head being ch), stack, seen and cur are the
\* locals of harvestChangesAndDispatch and isInSubtree; resp is what the
\* handler has sent to its caller.  The other fields record what happened:
\*   callCursor  lastPageToken when the handler was invoked
\*   from        the token the pass requested its first page at
\*   fetched     the positions of the entries of all pages fetched
\*   pages       the first positions of the pages fetched
\*   evald       the positions of the entries the for loop has taken up
\*   sent, outs  the positions dispatched, and each dispatch's outcome
\*   inits, advs the pass's own writes to lastPageToken (start token, newStart)
\*   foreign     another handler wrote lastPageToken while the pass was running
\*   why         what threw
\*   endCursor   lastPageToken when the handler returned
\*   after       the requests that had returned when this one was invoked
\*   sinceFetch  the remote log has grown since the pass's last page was served
IdlePass ==
    [pc |-> "idle", kind |-> "none", resp |-> <<>>,
     nextToken |-> Null, newStart |-> Null, changes |-> <<>>,
     stack |-> <<>>, seen |-> {}, cur |-> NoFile,
     callCursor |-> Null, from |-> Null, fetched |-> <<>>, pages |-> <<>>,
     evald |-> <<>>, sent |-> <<>>, outs |-> <<>>, inits |-> 0, advs |-> 0,
     foreign |-> FALSE, why |-> "none", endCursor |-> Null, after |-> {},
     sinceFetch |-> FALSE]

Awaiting == {"awaitStart", "awaitList", "awaitParents", "awaitDispatch", "awaitText",
             "awaitRegStart", "awaitWatch"}
Ended == {"done", "aborted", "rejected"}

\* continue: on to the next entry of the page.
Skip(st) == [st EXCEPT !.changes = Tail(@)]

\* The entry's file resource passes the checks  if (!f || !f.id) continue.
HasFileId(e) == e.file # NoFile /\ e.idServed

\* nextToken = data.nextPageToken || null
NextToken(data) == data.nextPageToken

\* if (data.newStartPageToken) newStart = data.newStartPageToken
NewStart(newStart, data) ==
    IF data.newStartPageToken # Null THEN data.newStartPageToken ELSE newStart

\* A pass that never stores the new start token.
AdvanceCursorNever(cursor, newStart) == cursor

\* if (newStart) lastPageToken = newStart
AdvanceCursor(cursor, newStart) == IF newStart # Null THEN newStart ELSE cursor

\* parentCache.set(id, parents)
CacheSet(cache, id, parents) ==
    [x \in (DOMAIN cache) \cup {id} |-> IF x = id THEN parents ELSE cache[x]]

\* The request of one dispatch: fetch(PROCESS_WEBHOOK_URL, ...) for ch.
Dispatch(st) ==
    [st EXCEPT !.pc = "awaitDispatch", !.sent = Append(@, Head(st.changes))]

\* The for loop over the page's entries and isInSubtree's while loop, run from
\* the current point up to the next network await (or to the end of the pass).
RECURSIVE ForLoop(_, _), Climb(_, _), WithParents(_, _, _), Inside(_, _, _)

\* A pass that stops after its first page.
AfterPageOnce(st) == [st EXCEPT !.pc = "done"]

\* while (nextToken) after the for loop; the pass is over when no token is left.
AfterPage(st) ==
    IF st.nextToken # Null THEN [st EXCEPT !.pc = "awaitList"]
    ELSE [st EXCEPT !.pc = "done"]

ForLoop(st0, cache) ==
    IF st0.changes = <<>> THEN AfterPage(st0)
    ELSE LET e == feed[Head(st0.changes)]
             st == [st0 EXCEPT !.evald = Append(@, Head(st0.changes))]
         IN  IF ~HasFileId(e) THEN ForLoop(Skip(st), cache)
             ELSE IF Files[e.file].mimeType = FOLDER_MIME THEN ForLoop(Skip(st), cache)
             ELSE Climb([st EXCEPT !.stack = <<e.file>>, !.seen = {}], cache)

Climb(st, cache) ==
    IF st.stack = <<>> THEN Inside(st, FALSE, cache)
    ELSE LET cur == st.stack[Len(st.stack)]
             rest == SubSeq(st.stack, 1, Len(st.stack) - 1)
         IN  IF cur \in st.seen THEN Climb([st EXCEPT !.stack = rest], cache)
             ELSE LET st2 == [st EXCEPT !.stack = rest, !.seen = @ \cup {cur},
                                        !.cur = cur]
                  IN  IF cur \in DOMAIN cache
                      THEN WithParents(st2, cache[cur], cache)
                      ELSE [st2 EXCEPT !.pc = "awaitParents"]

\* A climb that looks at the item's own parents only.
WithParentsDirectOnly(st, parents, cache) ==
    IF DRIVE_FOLDER_ID \in Range(parents) THEN Inside(st, TRUE, cache)
    ELSE Inside(st, FALSE, cache)

WithParents(st, parents, cache) ==
    IF parents = <<>> THEN Inside(st, FALSE, cache)
    ELSE IF DRIVE_FOLDER_ID \in Range(parents) THEN Inside(st, TRUE, cache)
    ELSE Climb([st EXCEPT !.stack = @ \o parents], cache)

Inside(st, inside, cache) ==
    LET f == Files[feed[Head(st.changes)].file] IN
    IF ~inside THEN ForLoop(Skip(st), cache)
    ELSE IF ~isAudio(f.name, f.mimeType) THEN ForLoop(Skip(st), cache)
    ELSE Dispatch(st)

\* An error thrown out of harvestChangesAndDispatch.
Throw(st, why) == [st EXCEPT !.pc = "aborted", !.why = why]

\* A handler that answers every trigger when its pass has returned or thrown.
AnswerEveryTrigger(st) ==
    IF st.pc = "done" THEN [st EXCEPT !.resp = Append(@, 200)]
    ELSE IF st.pc = "aborted" THEN [st EXCEPT !.resp = Append(@, 500)]
    ELSE st

\* What the trigger's handler answers when the pass has returned or thrown:
\* /drive/notify has answered already and only logs; /test/drive-notify
\* answers 200 or 500.
Answer(st) ==
    IF st.kind = "test" /\ st.pc = "done" THEN [st EXCEPT !.resp = Append(@, 200)]
    ELSE IF st.kind = "test" /\ st.pc = "aborted" THEN [st EXCEPT !.resp = Append(@, 500)]
    ELSE st

\* A pass that starts without looking at its settings.
HarvestStartUnchecked(st) ==
    IF ~env.creds THEN Throw(st, "creds")
    ELSE IF lastPageToken = Null THEN [st EXCEPT !.pc = "awaitStart"]
    ELSE [st EXCEPT !.pc = "awaitList", !.nextToken = lastPageToken,
                    !.newStart = Null, !.from = lastPageToken]

\* harvestChangesAndDispatch from its entry to its first await.
HarvestStart(st) ==
    IF ~env.folder \/ ~env.url THEN Throw(st, "config")
    ELSE IF ~env.creds THEN Throw(st, "creds")
    ELSE IF lastPageToken = Null THEN [st EXCEPT !.pc = "awaitStart"]
    ELSE [st EXCEPT !.pc = "awaitList", !.nextToken = lastPageToken,
                    !.newStart = Null, !.from = lastPageToken]

\* The step of pass p that leaves it in local state st (pc already set), with
\* lastPageToken set to cursor: the handler's answer and the records.
Settle(p, st, cursor, wrote) ==
    LET fin == IF st.pc \in Ended THEN [Answer(st) EXCEPT !.endCursor = cursor] ELSE st
    IN  /\ lastPageToken' = cursor
        /\ pass' = [q \in Passes |->
                      IF q = p THEN fin
                      ELSE IF wrote /\ pass[q].pc \in Awaiting
                           THEN [pass[q] EXCEPT !.foreign = TRUE]
                           ELSE pass[q]]

\* A pass that saves its position after every page.
ContinueSavingEachPage(p, st) ==
    IF st.pc = "done"
    THEN Settle(p, [st EXCEPT !.advs = IF st.newStart # Null THEN @ + 1 ELSE @],
                AdvanceCursor(lastPageToken, st.newStart), st.newStart # Null)
    ELSE IF st.pc = "awaitList" /\ st.pages # <<>>
    THEN Settle(p, [st EXCEPT !.advs = @ + 1], st.nextToken, TRUE)
    ELSE Settle(p, st, lastPageToken, FALSE)

\* The step in which pass p ends its loop or goes on to its next await.
Continue(p, st) ==
    IF st.pc = "done"
    THEN Settle(p, [st EXCEPT !.advs = IF st.newStart # Null THEN @ + 1 ELSE @],
                AdvanceCursor(lastPageToken, st.newStart), st.newStart # Null)
    ELSE Settle(p, st, lastPageToken, FALSE)

\* Request p arrives: the requests before it have arrived.  The manual test
\* trigger is used on its own: no request arrives while one is being handled.
Arrives(p) ==
    /\ pass[p].pc = "idle"
    /\ \A q \in Passes : q < p => pass[q].pc # "idle"
    /\ \A q \in Passes : pass[q].kind = "test" => pass[q].pc \in Ended

Alone == \A q \in Passes : pass[q].pc \in Ended \cup {"idle"}

Invoked(p, kind) ==
    [IdlePass EXCEPT !.kind = kind, !.callCursor = lastPageToken,
                     !.after = {q \in Passes : pass[q].pc \in Ended}]

\* A webhook receiver that lets a callback with a bad token through.
NotifyUnverified(p) ==
    /\ Arrives(p)
    /\ \E tokenOk \in BOOLEAN :
         Continue(p, HarvestStart([Invoked(p, "notify") EXCEPT
                                     !.resp = <<204>>,
                                     !.why = IF env.verify /\ ~tokenOk THEN "token"
                                             ELSE "none"]))
    /\ UNCHANGED <<call, graph, walk, env, script, lossy, feed, parentCache>>

\* POST /drive/notify
Notify(p) ==
    /\ Arrives(p)
    /\ \E tokenOk \in BOOLEAN :
         IF env.verify /\ ~tokenOk
         THEN Settle(p, [Invoked(p, "notify") EXCEPT !.pc = "rejected", !.resp = <<403>>,
                                                     !.why = "token"],
                     lastPageToken, FALSE)
         ELSE Continue(p, HarvestStart([Invoked(p, "notify") EXCEPT !.resp = <<204>>]))
    /\ UNCHANGED <<call, graph, walk, env, script, lossy, feed, parentCache>>

\* POST /test/drive-notify
TestDriveNotify(p) ==
    /\ Arrives(p)
    /\ Alone
    /\ IF ~env.folder \/ ~env.url
       THEN Settle(p, [Invoked(p, "test") EXCEPT !.pc = "rejected", !.resp = <<400>>],
                   lastPageToken, FALSE)
       ELSE Continue(p, HarvestStart(Invoked(p, "test")))
    /\ UNCHANGED <<call, graph, walk, env, script, lossy, feed, parentCache>>

\* getStartPageToken answers: lastPageToken = token.startPageToken, then the
\* first changes.list request.
StartTokenOk(p) ==
    /\ pass[p].pc = "awaitStart"
    /\ LET t == StartPageToken(feed) IN
       Settle(p, [pass[p] EXCEPT !.pc = "awaitList", !.nextToken = t, !.newStart = Null,
                                 !.from = t, !.inits = @ + 1],
              t, TRUE)
    /\ UNCHANGED <<call, graph, walk, env, script, lossy, feed, parentCache>>

StartTokenFail(p) ==
    /\ pass[p].pc = "awaitStart"
    /\ Settle(p, Throw(pass[p], "start"), lastPageToken, FALSE)
    /\ UNCHANGED <<call, graph, walk, env, script, lossy, feed, parentCache>>

\* What changes.list answers for pageToken t when it fills the page with n
\* entries: the next-page token while entries are left, and the new-start
\* token on the last page (carry: whether this response carries one).
ListResponse(t, n, carry) ==
    [changes |-> [k \in 1..n |-> t + k - 1],
     nextPageToken |-> IF t + n <= Len(feed) THEN t + n ELSE Null,
     newStartPageToken |-> IF carry THEN StartPageToken(feed) ELSE Null]

PageLengths(t) ==
    IF t > Len(feed) THEN {0}
    ELSE {n \in 1..PageSize : t + n - 1 <= Len(feed)}

CarryChoices(t, n) ==
    IF lossy THEN BOOLEAN ELSE {t + n > Len(feed)}

\* changes.list answers: the page is taken and its entries are worked on.
ListOk(p) ==
    /\ pass[p].pc = "awaitList"
    /\ \E n \in PageLengths(pass[p].nextToken) :
       \E carry \in CarryChoices(pass[p].nextToken, n) :
         LET data == ListResponse(pass[p].nextToken, n, carry)
             st == [pass[p] EXCEPT !.nextToken = NextToken(data),
                                   !.newStart = NewStart(@, data),
                                   !.changes = data.changes,
                                   !.fetched = @ \o data.changes,
                                   !.sinceFetch = FALSE,
                                   !.pages = Append(@, pass[p].nextToken)]
         IN  Continue(p, ForLoop(st, parentCache))
    /\ UNCHANGED <<call, graph, walk, env, script, lossy, feed, parentCache>>

ListFail(p) ==
    /\ pass[p].pc = "awaitList"
    /\ Settle(p, Throw(pass[p], "list"), lastPageToken, FALSE)
    /\ UNCHANGED <<call, graph, walk, env, script, lossy, feed, parentCache>>

\* files.get answers for cur: the parents are cached and the climb goes on.
ParentsOk(p) ==
    /\ pass[p].pc = "awaitParents"
    /\ LET parents == graph[pass[p].cur]
           cache == CacheSet(parentCache, pass[p].cur, parents)
       IN  /\ parentCache' = cache
           /\ Continue(p, WithParents(pass[p], parents, cache))
    /\ UNCHANGED <<call, graph, walk, env, script, lossy, feed>>

\* A failed lookup after which the entry is skipped and the loop goes on.
LookupSkipped(st, cache) == ForLoop(Skip([st EXCEPT !.why = "parents"]), cache)

\* files.get rejects: nothing catches it in getParents, isInSubtree or the for
\* loop, so it leaves harvestChangesAndDispatch.
LookupFailed(st, cache) == Throw(st, "parents")

ParentsFail(p) ==
    /\ pass[p].pc = "awaitParents"
    /\ Continue(p, LookupFailed(pass[p], parentCache))
    /\ UNCHANGED <<call, graph, walk, env, script, lossy, feed, parentCache>>

\* The dispatch succeeded: the next entry.
Delivered(st, cache) == ForLoop(Skip(st), cache)

\* A failed dispatch whose error leaves harvestChangesAndDispatch.
Uncaught(st, cache) == Throw(st, "dispatch")

\* A failed dispatch that is sent again.
CaughtRetrying(st, cache) == Dispatch(st)

\* The dispatch failed (a non-success status, or fetch threw and the error
\* was caught): it is logged, and the loop goes on with the next entry.
Caught(st, cache) == ForLoop(Skip(st), cache)

\* fetch answers with r.ok.
DispatchOk(p) ==
    /\ pass[p].pc = "awaitDispatch"
    /\ Continue(p, Delivered([pass[p] EXCEPT !.outs = Append(@, "ok")], parentCache))
    /\ UNCHANGED <<call, graph, walk, env, script, lossy, feed, parentCache>>

\* fetch answers with a non-success status: await r.text().catch(() => "").
DispatchStatus(p) ==
    /\ pass[p].pc = "awaitDispatch"
    /\ Settle(p, [pass[p] EXCEPT !.pc = "awaitText", !.outs = Append(@, "failed")],
              lastPageToken, FALSE)
    /\ UNCHANGED <<call, graph, walk, env, script, lossy, feed, parentCache>>

\* The body is read (or its read fails and is caught); the failure is logged.
TextRead(p) ==
    /\ pass[p].pc = "awaitText"
    /\ Continue(p, Caught(pass[p], parentCache))
    /\ UNCHANGED <<call, graph, walk, env, script, lossy, feed, parentCache>>

\* fetch throws (transport failure): caught and logged.
DispatchError(p) ==
    /\ pass[p].pc = "awaitDispatch"
    /\ Continue(p, Caught([pass[p] EXCEPT !.outs = Append(@, "failed")], parentCache))
    /\ UNCHANGED <<call, graph, walk, env, script, lossy, feed, parentCache>>

(* ---------------------------- registration ----------------------------- *)

\* POST /drive/register up to getStartPageToken.
Register(p) ==
    /\ Arrives(p)
    /\ LET st == Invoked(p, "register") IN
       IF ~env.folder \/ ~env.url
       THEN Settle(p, [st EXCEPT !.pc = "rejected", !.resp = <<400>>], lastPageToken, FALSE)
       ELSE IF ~env.creds
       THEN Settle(p, [Throw(st, "creds") EXCEPT !.resp = <<500>>], lastPageToken, FALSE)
       ELSE Settle(p, [st EXCEPT !.pc = "awaitRegStart"], lastPageToken, FALSE)
    /\ UNCHANGED <<call, graph, walk, env, script, lossy, feed, parentCache>>

\* getStartPageToken answers: the cursor is set, then changes.watch is called
\* (or 400 is answered when APP_HOST_URL is not set).
RegStartTokenOk(p) ==
    /\ pass[p].pc = "awaitRegStart"
    /\ LET st == [pass[p] EXCEPT !.inits = @ + 1] IN
       IF ~env.host
       THEN Settle(p, [st EXCEPT !.pc = "rejected", !.resp = <<400>>],
                   StartPageToken(feed), TRUE)
       ELSE Settle(p, [st EXCEPT !.pc = "awaitWatch"], StartPageToken(feed), TRUE)
    /\ UNCHANGED <<call, graph, walk, env, script, lossy, feed, parentCache>>

RegStartTokenFail(p) ==
    /\ pass[p].pc = "awaitRegStart"
    /\ Settle(p, [Throw(pass[p], "start") EXCEPT !.resp = <<500>>], lastPageToken, FALSE)
    /\ UNCHANGED <<call, graph, walk, env, script, lossy, feed, parentCache>>

RegWatchOk(p) ==
    /\ pass[p].pc = "awaitWatch"
    /\ Settle(p, [pass[p] EXCEPT !.pc = "done", !.resp = <<200>>], lastPageToken, FALSE)
    /\ UNCHANGED <<call, graph, walk, env, script, lossy, feed, parentCache>>

RegWatchFail(p) ==
    /\ pass[p].pc = "awaitWatch"
    /\ Settle(p, [Throw(pass[p], "watch") EXCEPT !.resp = <<500>>], lastPageToken, FALSE)
    /\ UNCHANGED <<call, graph, walk, env, script, lossy, feed, parentCache>>

(* --------------------------- the environment --------------------------- *)

\* A change in the remote drive: the log grows by one entry.
RemoteChange ==
    /\ Len(feed) < MaxFeed
    /\ feed' = Append(feed, ChangeAt(script, Len(feed) + 1))
    /\ pass' = [q \in Passes |->
                  [pass[q] EXCEPT !.sinceFetch = @ \/ pass[q].pages # <<>>]]
    /\ UNCHANGED <<call, graph, walk, env, script, lossy, lastPageToken, parentCache>>

\* The settings the process may be started with.
FullEnv == [folder |-> TRUE, url |-> TRUE, creds |-> TRUE, verify |-> TRUE, host |-> TRUE]

\* Every setting is missing in one of them.
Envs == {FullEnv, [FullEnv EXCEPT !.verify = FALSE, !.host = FALSE]}
        \cup {[FullEnv EXCEPT ![k] = FALSE] : k \in {"folder", "url", "creds"}}

InitWith(lossyChoices) ==
    /\ env \in Envs
    /\ script \in Scripts
    /\ lossy \in lossyChoices
    /\ feed = <<>>
    /\ lastPageToken = Null
    /\ parentCache = <<>>
    /\ pass = [p \in Passes |-> IdlePass]
    /\ graph = [id \in Ids |-> Files[id].parents]
    /\ walk = IdleWalk
    /\ call = NoCall

\* The feed keeps to the change-feed contract: a response carries a new-start
\* token exactly when it carries no next-page token.
Init == InitWith({FALSE})

\* The feed may also leave the new-start token out or send it early.
InitLossy == InitWith(BOOLEAN)

Next ==
    \/ \E p \in Passes : Notify(p)
    \/ \E p \in Passes : TestDriveNotify(p)
    \/ \E p \in Passes : StartTokenOk(p)
    \/ \E p \in Passes : StartTokenFail(p)
    \/ \E p \in Passes : ListOk(p)
    \/ \E p \in Passes : ListFail(p)
    \/ \E p \in Passes : ParentsOk(p)
    \/ \E p \in Passes : ParentsFail(p)
    \/ \E p \in Passes : DispatchOk(p)
    \/ \E p \in Passes : DispatchStatus(p)
    \/ \E p \in Passes : TextRead(p)
    \/ \E p \in Passes : DispatchError(p)
    \/ \E p \in Passes : Register(p)
    \/ \E p \in Passes : RegStartTokenOk(p)
    \/ \E p \in Passes : RegStartTokenFail(p)
    \/ \E p \in Passes : RegWatchOk(p)
    \/ \E p \in Passes : RegWatchFail(p)
    \/ RemoteChange

Spec == Init /\ [][Next]_vars

SpecLossy == InitLossy /\ [][Next]_vars



(* ----------------------------- remote moves ---------------------------- *)

\* A move in the remote drive: file a goes from folder sub to folder out;
\* files.get reports the new parent from then on.
RemoteMove ==
    /\ graph["a"] = <<"sub">>
    /\ graph' = [graph EXCEPT !["a"] = <<"out">>]
    /\ UNCHANGED <<call, env, script, lossy, feed, lastPageToken, parentCache, pass, walk>>

NextMove ==
    \/ Next
    \/ RemoteMove

\* The harvester with items moving in the remote drive while it runs.
SpecMove == Init /\ [][NextMove]_vars

(* ------------------------ isInSubtree on its own ----------------------- *)

\* The items of the parent graphs isInSubtree is run on: three folders and a
\* file.  Only folders are parents.
WalkIds == {"root", "sub", "out", "a"}
WalkFolders == {"root", "sub", "out"}

\* Most parents one item has.
MaxParents == 2

\* data.parents || []: the parents of an item, in the order files.get lists them.
ParentLists ==
    {s \in UNION {[1..n -> WalkFolders] : n \in 0..MaxParents} :
        \A i, j \in 1..Len(s) : i < j => s[i] # s[j]}

\* Every finite parent graph over the items, cycles and shared ancestors included.
Graphs == [WalkIds -> ParentLists]

\* A climb that keeps no record of the items it has visited.
SeenNever(w, cur) == FALSE

\* seen.has(cur)
Seen(w, cur) == cur \in w.seen

\* getParents(drive, id) when the lookup returns: the cached parents if the id
\* is cached, else the parents files.get reports.
getParents(cache, id) == IF id \in DOMAIN cache THEN cache[id] ELSE graph[id]

\* The cache after getParents(drive, id).
Cached(cache, id) ==
    IF id \in DOMAIN cache THEN cache ELSE CacheSet(cache, id, graph[id])

\* A climb that counts the target itself as inside.
VisitTargetFirst(w, cur, parents) ==
    LET w2 == [w EXCEPT !.seen = @ \cup {cur},
                        !.twice = @ \/ cur \in w.resolved,
                        !.resolved = @ \cup {cur}]
    IN  IF cur = w.target \/ w.target \in Range(parents)
        THEN [w2 EXCEPT !.pc = "returned", !.result = TRUE]
        ELSE IF parents = <<>> THEN [w2 EXCEPT !.pc = "returned", !.result = FALSE]
        ELSE [w2 EXCEPT !.stack = @ \o parents]

\* The rest of one iteration of the while loop, cur being popped and not seen:
\* seen.add(cur), then the parents decide.
Visit(w, cur, parents) ==
    LET w2 == [w EXCEPT !.seen = @ \cup {cur},
                        !.twice = @ \/ cur \in w.resolved,
                        !.resolved = @ \cup {cur}]
    IN  IF parents = <<>> THEN [w2 EXCEPT !.pc = "returned", !.result = FALSE]
        ELSE IF w.target \in Range(parents)
        THEN [w2 EXCEPT !.pc = "returned", !.result = TRUE]
        ELSE [w2 EXCEPT !.stack = @ \o parents]

\* isInSubtree(drive, start, target) is called.
IsInSubtreeCall ==
    /\ walk.pc = "idle"
    /\ \E start \in WalkIds : \E target \in {DRIVE_FOLDER_ID, start} :
         walk' = [IdleWalk EXCEPT !.pc = "running", !.start = start, !.target = target,
                                  !.stack = <<start>>]
    /\ UNCHANGED <<call, env, script, lossy, feed, lastPageToken, parentCache, pass, graph>>

\* One test of while (stack.length) and, if it passes, one iteration.
IsInSubtreeStep ==
    /\ walk.pc = "running"
    /\ IF walk.stack = <<>>
       THEN /\ walk' = [walk EXCEPT !.pc = "returned", !.result = FALSE]
            /\ UNCHANGED parentCache
       ELSE LET cur == walk.stack[Len(walk.stack)]
                w == [walk EXCEPT !.stack = SubSeq(@, 1, Len(@) - 1)]
            IN  IF Seen(w, cur)
                THEN /\ walk' = w
                     /\ UNCHANGED parentCache
                ELSE /\ walk' = Visit(w, cur, getParents(parentCache, cur))
                     /\ parentCache' = Cached(parentCache, cur)
    /\ UNCHANGED <<call, env, script, lossy, feed, lastPageToken, pass, graph>>

InitClimb ==
    /\ env = FullEnv
    /\ script = 1
    /\ lossy = FALSE
    /\ feed = <<>>
    /\ lastPageToken = Null
    /\ parentCache = <<>>
    /\ pass = [p \in Passes |-> IdlePass]
    /\ graph \in Graphs
    /\ walk = IdleWalk
    /\ call = NoCall

NextClimb ==
    \/ IsInSubtreeCall
    \/ IsInSubtreeStep

\* Every remote lookup returns, and the loop goes on when it does.
SpecClimb == InitClimb /\ [][NextClimb]_vars /\ WF_vars(IsInSubtreeStep)

(* ------------------------ detectCallType on its own -------------------- *)

\* Most pieces a file name is put together from.
MaxPieces == 3

\* The pieces of the file names detectCallType is called with: the two words
\* in several letter cases, the words cut short, and other text.
Pieces ==
    { <<"I", "n", "c", "o", "m", "i", "n", "g">>,
      <<"I", "N", "C", "O", "M", "I", "N", "G">>,
      <<"o", "u", "t", "g", "o", "i", "n", "g">>,
      <<"O", "u", "t", "G", "O", "I", "N", "G">>,
      <<"i", "n", "c", "o", "m", "i", "n">>,
      <<"u", "t", "g", "o", "i", "n", "g">>,
      <<"g">>, <<"O">>, <<"_", "2", ".", "m", "4", "a">> }

RECURSIVE NamesOf(_)
NamesOf(n) ==
    IF n = 0 THEN {<<>>}
    ELSE NamesOf(n - 1) \cup {s \o pc : s \in NamesOf(n - 1), pc \in Pieces}

Names == NamesOf(MaxPieces)

\* detectCallType(name) is called and returns.
DetectCallType ==
    /\ call = NoCall
    /\ \E name \in Names : call' = [name |-> name, callType |-> detectCallType(name)]
    /\ UNCHANGED <<env, script, lossy, feed, lastPageToken, parentCache, pass, graph, walk>>

InitCallType ==
    /\ env = FullEnv
    /\ script = 1
    /\ lossy = FALSE
    /\ feed = <<>>
    /\ lastPageToken = Null
    /\ parentCache = <<>>
    /\ pass = [p \in Passes |-> IdlePass]
    /\ graph = [id \in Ids |-> Files[id].parents]
    /\ walk = IdleWalk
    /\ call = NoCall

NextCallType == DetectCallType

SpecCallType == InitCallType /\ [][NextCallType]_vars

(* ------------------------------ the claims ----------------------------- *)

\* Request p runs a harvesting pass.
IsPass(p) == pass[p].kind \in {"notify", "test"}

\* Pass p is between reading the cursor and returning.
Harvesting(p) == IsPass(p) /\ pass[p].pc \in Awaiting

\* Pass p was aborted by a failed changes.list.
FetchFailed(p) == IsPass(p) /\ pass[p].pc = "aborted" /\ pass[p].why = "list"

Completed(p) == IsPass(p) /\ pass[p].pc = "done"

\* C1: harvesting passes are serialized: at most one pass is between its
\* cursor read and its cursor advance at any time.
C1_Serialized == Cardinality({p \in Passes : Harvesting(p)}) <= 1

\* C2 as stated: after a pass in which a page fetch failed, the cursor equals
\* the cursor held immediately before the pass was invoked, also when none was
\* held.
C2_CursorAsBeforeCall ==
    \A p \in Passes : FetchFailed(p) => pass[p].endCursor = pass[p].callCursor

\* C2 as amended: a pass in which a page fetch failed has not advanced the
\* cursor; unless another request wrote the cursor while the pass ran, the
\* cursor after the pass is the one the pass requested its first page at: the
\* cursor held before the call when one was held, the start cursor the pass
\* initialised when none was.
C2_FailedFetchKeepsCursor ==
    \A p \in Passes :
        FetchFailed(p) =>
            /\ pass[p].advs = 0
            /\ pass[p].inits = (IF pass[p].callCursor = Null THEN 1 ELSE 0)
            /\ ~pass[p].foreign => pass[p].endCursor = pass[p].from
            /\ pass[p].callCursor # Null => pass[p].from = pass[p].callCursor

\* A page fetch fails on a later page, after a dispatch, in a pass invoked with
\* a cursor held and not disturbed by another request.
C2_Witness ==
    \E p \in Passes :
        /\ FetchFailed(p)
        /\ pass[p].callCursor # Null
        /\ ~pass[p].foreign
        /\ pass[p].sent # <<>>
        /\ pass[p].endCursor = pass[p].callCursor

\* The items of the remote drive that are not folders, are inside the root
\* folder's subtree and are classified as audio.
QualifyingFiles ==
    {id \in Ids :
        /\ Files[id].mimeType # FOLDER_MIME
        /\ InSubtree(id)
        /\ isAudio(Files[id].name, Files[id].mimeType)}

\* The entry at position k of the log qualifies: it has an identifier and its
\* file is a qualifying one.
Qualifies(k) ==
    /\ feed[k].file # NoFile
    /\ feed[k].idServed
    /\ feed[k].file \in QualifyingFiles

C4_AdvanceOnlyAtEnd ==
    \A p \in Passes :
        IsPass(p) =>
            /\ pass[p].advs <= 1
            /\ pass[p].advs = 1 =>
                  /\ pass[p].pc = "done"
                  /\ pass[p].nextToken = Null
                  /\ pass[p].changes = <<>>
                  /\ pass[p].evald = pass[p].fetched
            /\ pass[p].inits <= 1
            /\ pass[p].inits = 1 => pass[p].callCursor = Null
            /\ ~pass[p].foreign /\ pass[p].pc \in Awaiting /\ pass[p].from # Null
                  => lastPageToken = pass[p].from

\* A pass of several pages with a dispatch has advanced the cursor at its end.
C4_Witness ==
    \E p \in Passes :
        /\ Completed(p)
        /\ pass[p].advs = 1
        /\ Len(pass[p].pages) >= 2
        /\ pass[p].sent # <<>>
        /\ lastPageToken = pass[p].newStart
\* C5: when a pass completes, the cursor is the new-start token of the last
\* page that carried one; if no page carried one, the cursor is the value the
\* pass read.
C5_CursorAtCompletion ==
    \A p \in Passes :
        Completed(p) =>
            pass[p].endCursor = (IF pass[p].newStart # Null THEN pass[p].newStart
                                 ELSE pass[p].from)

\* The step is a write of the cursor by pass p: its initial start token or
\* its advance to newStart.
PassWrites(p) ==
    /\ IsPass(p)
    /\ \/ pass'[p].advs > pass[p].advs
       \/ pass'[p].inits > pass[p].inits

\* C6: the cursor is never rewound: every write of the cursor by a pass stores
\* a position that is not earlier than the one it replaces.
C6_NeverRewound ==
    [][\A p \in Passes : PassWrites(p) => lastPageToken' >= lastPageToken]_vars

\* Pass q was invoked after pass p had returned.
Follows(q, p) == IsPass(p) /\ IsPass(q) /\ p \in pass[q].after

\* C7 as stated: of two consecutive passes with no remote change in between,
\* the second finds no qualifying entry and dispatches nothing.
C7_SecondPassIdle ==
    \A p, q \in Passes :
        Follows(q, p) /\ pass[p].pages # <<>> /\ ~pass[p].sinceFetch =>
            /\ pass[q].sent = <<>>
            /\ SelectSeq(pass[q].fetched, Qualifies) = <<>>

\* C7 as amended: when the first pass completes and the remote log has not
\* grown since its last page was served, the second pass is served no entry
\* and dispatches nothing.
C7_SecondPassIdleAfterCompleted ==
    \A p, q \in Passes :
        Follows(q, p) /\ Completed(p) /\ ~pass[p].sinceFetch =>
            /\ pass[q].sent = <<>>
            /\ pass[q].fetched = <<>>
            /\ pass[q].from # Null => pass[q].from = StartPageToken(feed)

\* A pass that dispatched has completed, and the pass after it has fetched a
\* page from the unchanged log and completed.
C7_Witness ==
    \E p, q \in Passes :
        /\ Follows(q, p)
        /\ Completed(p)
        /\ pass[p].sent # <<>>
        /\ ~pass[p].sinceFetch
        /\ Completed(q)
        /\ pass[q].pages # <<>>

\* The entries of the k-th page that pass p fetched.
PageEntries(p, k) ==
    {j \in Range(pass[p].fetched) :
        /\ j >= pass[p].pages[k]
        /\ k < Len(pass[p].pages) => j < pass[p].pages[k + 1]}

\* The pages of pass p that pass q has fetched again.
Rescanned(p, q) ==
    {k \in 1..Len(pass[p].pages) :
        /\ PageEntries(p, k) # {}
        /\ PageEntries(p, k) \subseteq Range(pass[q].fetched)}

IsPrefix(s, t) == Len(s) <= Len(t) /\ SubSeq(t, 1, Len(s)) = s

\* C8 as stated: the pass after one aborted by a failed page fetch re-scans
\* at most one page that the aborted pass had processed.
C8_RescansAtMostOnePage ==
    \A p, q \in Passes :
        Follows(q, p) /\ FetchFailed(p) => Cardinality(Rescanned(p, q)) <= 1

\* C8 as amended: the pass after one aborted by a failed page fetch starts
\* from the cursor the aborted pass started from (no other request having
\* written it), and when it completes it has fetched again every page the
\* aborted pass had processed.
C8_NextPassRescansAll ==
    \A p, q \in Passes :
        Follows(q, p) /\ FetchFailed(p) /\ ~pass[p].foreign /\ pass[q].from # Null =>
            /\ pass[q].callCursor = pass[p].from
            /\ pass[q].from = pass[p].from
            /\ IsPrefix(pass[q].fetched, pass[p].fetched)
                  \/ IsPrefix(pass[p].fetched, pass[q].fetched)
            /\ Completed(q) =>
                  /\ IsPrefix(pass[p].fetched, pass[q].fetched)
                  /\ Cardinality(Rescanned(p, q)) = Len(pass[p].pages)
                  /\ Range(pass[p].sent) \subseteq Range(pass[q].sent)

\* A pass failed on its third page after a dispatch; the next pass fetched
\* both processed pages again and dispatched the same entry again.
C8_Witness ==
    \E p, q \in Passes :
        /\ Follows(q, p)
        /\ FetchFailed(p)
        /\ Len(pass[p].pages) = 2
        /\ pass[p].sent # <<>>
        /\ Completed(q)
        /\ Cardinality(Rescanned(p, q)) = 2
        /\ Range(pass[p].sent) \subseteq Range(pass[q].sent)

\* C9: a failed dispatch does not abort the pass: the pass is never ended by
\* it, and when the pass completes every entry fetched after the failed one
\* was taken up and, if qualifying, dispatched; the caller gets a normal answer.
C9_FailedDispatchDoesNotAbort ==
    \A p \in Passes :
        IsPass(p) =>
            \A k \in 1..Len(pass[p].outs) :
                pass[p].outs[k] = "failed" =>
                    /\ pass[p].pc = "aborted" => pass[p].why \in {"list", "parents"}
                    /\ Completed(p) =>
                          /\ \A j \in Range(pass[p].fetched) :
                                j > pass[p].sent[k] =>
                                    /\ j \in Range(pass[p].evald)
                                    /\ Qualifies(j) => j \in Range(pass[p].sent)
                          /\ pass[p].kind = "test" => pass[p].resp = <<200>>
                          /\ pass[p].kind = "notify" => pass[p].resp = <<204>>

\* The first dispatch of a completed pass failed; a later entry of the same
\* page was dispatched and a later page was fetched and taken up.
C9_Witness ==
    \E p \in Passes :
        /\ Completed(p)
        /\ Len(pass[p].sent) >= 2
        /\ pass[p].outs[1] = "failed"
        /\ Len(pass[p].pages) >= 2
        /\ pass[p].sent[2] < pass[p].pages[2]
        /\ \E j \in Range(pass[p].evald) : j >= pass[p].pages[2]

\* C10: every entry is dispatched at most once in a pass, whatever the
\* outcome; when the pass completes the cursor is past every entry it
\* dispatched, so that the next pass does not send a failed entry again.
C10_OneAttempt ==
    \A p \in Passes :
        IsPass(p) =>
            /\ \A i, j \in 1..Len(pass[p].sent) : i < j => pass[p].sent[i] < pass[p].sent[j]
            /\ Len(pass[p].outs) <= Len(pass[p].sent)
            /\ Len(pass[p].sent) <= Len(pass[p].outs) + 1
            /\ Completed(p) =>
                  /\ Len(pass[p].outs) = Len(pass[p].sent)
                  /\ \A k \in 1..Len(pass[p].sent) : pass[p].endCursor > pass[p].sent[k]
                  /\ \A q \in Passes :
                        Follows(q, p) =>
                            \A k \in 1..Len(pass[p].sent) :
                                pass[p].outs[k] = "failed"
                                    => pass[p].sent[k] \notin Range(pass[q].fetched)

\* A pass with a failed dispatch has completed, and the pass after it has
\* completed too, after a further change.
C10_Witness ==
    \E p, q \in Passes :
        /\ Follows(q, p)
        /\ Completed(p)
        /\ "failed" \in Range(pass[p].outs)
        /\ Completed(q)
        /\ pass[q].fetched # <<>>

\* A remote parent lookup failed during pass p.
AncestryFailed(p) == IsPass(p) /\ pass[p].why = "parents"

\* C11: a failed parent lookup for one entry does not abort the pass: the
\* entry is skipped and the pass goes on.
C11_LookupFailureSkipsEntry ==
    \A p \in Passes : AncestryFailed(p) => pass[p].pc # "aborted"

\* C12: a failed parent lookup aborts the pass without advancing the cursor:
\* the entry it failed for is the last one the pass took up and is not
\* dispatched, and the next pass starts from the cursor the aborted one
\* started from.
C12_LookupFailureAborts ==
    \A p \in Passes :
        AncestryFailed(p) =>
            /\ pass[p].pc = "aborted"
            /\ pass[p].advs = 0
            /\ pass[p].evald # <<>>
            /\ IsPrefix(pass[p].evald, pass[p].fetched)
            /\ Len(pass[p].outs) = Len(pass[p].sent)
            /\ \A k \in Range(pass[p].sent) : k < pass[p].evald[Len(pass[p].evald)]
            /\ ~pass[p].foreign => pass[p].endCursor = pass[p].from
            /\ \A q \in Passes :
                  Follows(q, p) /\ ~pass[p].foreign /\ pass[q].from # Null =>
                      /\ pass[q].callCursor = pass[p].from
                      /\ pass[q].from = pass[p].from

\* A lookup failed for an entry that was not the last of its page, and the
\* next pass has fetched from the same cursor and completed.
C12_Witness ==
    \E p, q \in Passes :
        /\ AncestryFailed(p)
        /\ Len(pass[p].evald) < Len(pass[p].fetched)
        /\ Follows(q, p)
        /\ Completed(q)
        /\ pass[q].from = pass[p].from
        /\ IsPrefix(pass[p].fetched, pass[q].fetched)

\* The target is reachable from the item by following parent links of graph.
RECURSIVE Ancestor(_, _, _)
Ancestor(id, target, fuel) ==
    /\ fuel > 0
    /\ \E p \in Range(graph[id]) : p = target \/ Ancestor(p, target, fuel - 1)

Returned == walk.pc = "returned"

\* C13: for every item from which the target is reachable by parent links, in
\* any finite parent graph, isInSubtree returns true.
C13_ReachableReturnsTrue ==
    Returned /\ Ancestor(walk.start, walk.target, Cardinality(WalkIds)) => walk.result

\* C14: for every item that has no parents isInSubtree returns false, whatever
\* the target, the item itself included.
C14_ParentlessReturnsFalse ==
    Returned /\ graph[walk.start] = <<>> => ~walk.result

\* The call for a parentless item with the item itself as target has returned.
C14_Witness ==
    /\ Returned
    /\ graph[walk.start] = <<>>
    /\ walk.target = walk.start
    /\ walk.resolved = {walk.start}

\* C16: isInSubtree returns on every finite parent graph when every lookup
\* returns, and resolves no identifier more than once in a call.
C16_Terminates ==
    /\ [](~walk.twice /\ walk.resolved = walk.seen)
    /\ (walk.pc = "running") ~> Returned

\* The call has returned on a graph with a parent cycle both of whose members
\* are parents of the item, so that each is reachable along two paths.
C16_Witness ==
    /\ Returned
    /\ walk.start = "a"
    /\ graph["a"] = <<"sub", "out">>
    /\ graph["sub"] = <<"out">>
    /\ graph["out"] = <<"sub">>
    /\ walk.resolved = {"a", "sub", "out"}

\* C15: at most one remote parent lookup is issued per identifier, also by
\* overlapping passes: no two lookups for one identifier are in flight at once.
C15_OneLookupPerId ==
    \A p, q \in Passes :
        p # q /\ pass[p].pc = "awaitParents" /\ pass[q].pc = "awaitParents"
            => pass[p].cur # pass[q].cur

\* C17: the parent cache is append-only: an entry, once stored, is never
\* changed and never removed.
C17_CacheAppendOnly ==
    [][\A id \in DOMAIN parentCache :
          /\ id \in DOMAIN parentCache'
          /\ parentCache'[id] = parentCache[id]]_vars

\* C18: one notification per qualifying file: within one pass no file is
\* dispatched more than once, however many change entries the pages hold for it.
C18_OnePerFile ==
    \A p \in Passes :
        IsPass(p) =>
            \A i, j \in 1..Len(pass[p].sent) :
                i < j => feed[pass[p].sent[i]].file # feed[pass[p].sent[j]].file

\* DRIVE_FOLDER_ID or PROCESS_WEBHOOK_URL is not set.
ConfigMissing == ~env.folder \/ ~env.url

\* C19 as stated: with the root folder or the downstream endpoint not
\* configured, every operation answers its caller with a configuration error.
C19_ConfigErrorReported ==
    ConfigMissing =>
        \A p \in Passes :
            pass[p].pc \in Ended /\ pass[p].why # "token"
                => pass[p].resp \in {<<400>>, <<500>>}

\* C19 as amended: with the root folder or the downstream endpoint not
\* configured, no operation makes a remote call or changes the cursor or the
\* parent cache; the manual trigger and the registration answer 400; the
\* webhook answers 403 to a bad token and otherwise acknowledges with 204, its
\* pass throwing the configuration error to the handler, which logs it.
C19_ConfigErrorNoEffect ==
    ConfigMissing =>
        /\ lastPageToken = Null
        /\ parentCache = <<>>
        /\ \A p \in Passes :
              /\ pass[p].pc \notin Awaiting
              /\ pass[p].pages = <<>>
              /\ pass[p].sent = <<>>
              /\ pass[p].inits = 0
              /\ pass[p].advs = 0
              /\ pass[p].kind \in {"test", "register"} =>
                    pass[p].pc = "rejected" /\ pass[p].resp = <<400>>
              /\ pass[p].kind = "notify" =>
                    \/ pass[p].pc = "rejected" /\ pass[p].why = "token"
                                               /\ pass[p].resp = <<403>>
                    \/ pass[p].pc = "aborted" /\ pass[p].why = "config"
                                              /\ pass[p].resp = <<204>>

\* Without the settings a webhook callback was acknowledged and its pass
\* failed, and the manual trigger was refused.
C19_Witness ==
    /\ ConfigMissing
    /\ \E p, q \in Passes :
          /\ pass[p].kind = "notify"
          /\ pass[p].pc = "aborted"
          /\ pass[p].why = "config"
          /\ pass[q].kind = "test"
          /\ pass[q].resp = <<400>>

\* C20: with a verification token configured, a webhook callback whose token
\* does not match is answered 403 and starts no pass: no remote call, no
\* dispatch, and the cursor is as it was.
C20_BadTokenRejected ==
    \A p \in Passes :
        pass[p].why = "token" =>
            /\ pass[p].kind = "notify"
            /\ env.verify
            /\ pass[p].pc = "rejected"
            /\ pass[p].resp = <<403>>
            /\ pass[p].from = Null
            /\ pass[p].pages = <<>>
            /\ pass[p].sent = <<>>
            /\ pass[p].inits = 0
            /\ pass[p].advs = 0
            /\ pass[p].endCursor = pass[p].callCursor

\* A callback with a bad token was rejected while a cursor was held and
\* changes were waiting in the log.
C20_Witness ==
    \E p \in Passes :
        /\ pass[p].why = "token"
        /\ pass[p].callCursor # Null
        /\ lastPageToken = pass[p].callCursor
        /\ lastPageToken <= Len(feed)

\* C21: an accepted webhook callback is acknowledged exactly once, with 204,
\* before its pass has a remote call in flight, and nothing the pass does
\* later (completing, failing on the settings, on a page fetch or on a
\* dispatch) adds a response.
C21_AcknowledgedOnce ==
    \A p \in Passes :
        pass[p].kind = "notify" =>
            \/ pass[p].pc = "rejected" /\ pass[p].resp = <<403>>
            \/ pass[p].pc \in (Awaiting \cup {"done", "aborted"}) /\ pass[p].resp = <<204>>

\* Webhook passes have ended in two ways, one aborted by a page fetch after a
\* failed dispatch, the other completed, each with its one acknowledgement.
C21_Witness ==
    \E p, q \in Passes :
        /\ pass[p].kind = "notify"
        /\ pass[p].pc = "aborted"
        /\ pass[p].why = "list"
        /\ "failed" \in Range(pass[p].outs)
        /\ pass[p].resp = <<204>>
        /\ pass[q].kind = "notify"
        /\ pass[q].pc = "done"
        /\ pass[q].resp = <<204>>

\* The name contains the word (given in lower case) in some letter case.
ContainsAnyCase(name, word) ==
    \E i \in 1..(Len(name) - Len(word) + 1) :
        \A k \in 1..Len(word) :
            \/ name[i + k - 1] = word[k]
            \/ \E j \in 1..Len(Lower) : Lower[j] = word[k] /\ Upper[j] = name[i + k - 1]

\* C22: detectCallType returns "incoming" for every name that contains
\* "incoming" in any letter case, "outgoing" for every other name that
\* contains "outgoing", and "unknown" for every name that contains neither.
C22_Direction ==
    call # NoCall =>
        call.callType =
            (IF ContainsAnyCase(call.name, INCOMING) THEN "incoming"
             ELSE IF ContainsAnyCase(call.name, OUTGOING) THEN "outgoing"
             ELSE "unknown")

\* The call for a name with "OutGOING" before "INCOMING" has returned "incoming".
C22_Witness ==
    /\ call.callType = "incoming"
    /\ call.name = <<"O", "u", "t", "G", "O", "I", "N", "G">>
                     \o <<"I", "N", "C", "O", "M", "I", "N", "G">>
                     \o <<"_", "2", ".", "m", "4", "a">>

\* The pages of pass p form a chain: the first is requested at the cursor the
\* pass read, each further one at the next-page token of the response before
\* it (the position after that response's entries), and the pass is over
\* exactly when a response has carried no next-page token and its entries
\* are done.
PageChain(p) ==
    /\ pass[p].pages # <<>> => pass[p].pages[1] = pass[p].from
    /\ \A i \in 1..Len(pass[p].fetched) : pass[p].fetched[i] = pass[p].from + i - 1
    /\ \A k \in 1..(Len(pass[p].pages) - 1) :
          /\ pass[p].pages[k + 1] > pass[p].pages[k]
          /\ pass[p].pages[k + 1] = pass[p].pages[k] + Cardinality(PageEntries(p, k))
    /\ pass[p].pc = "awaitList" =>
          /\ pass[p].nextToken # Null
          /\ pass[p].nextToken = pass[p].from + Len(pass[p].fetched)
    /\ pass[p].pc = "done" => pass[p].nextToken = Null /\ pass[p].pages # <<>>
    /\ pass[p].pc \in Awaiting /\ pass[p].pages # <<>> /\ pass[p].nextToken = Null
          => pass[p].changes # <<>>

\* How far a pass has come, as one number: pages fetched, then entries taken
\* up, then items visited in the current climb, then dispatches answered, then
\* the await it is at.  The log is finite, so the number is bounded.
PcRank(pc) ==
    CASE pc = "awaitStart" -> 0
      [] pc = "awaitParents" -> 1
      [] pc = "awaitDispatch" -> 2
      [] pc = "awaitText" -> 3
      [] OTHER -> 4

Progress(st) ==
    (((Len(st.pages) * 10 + Len(st.evald)) * 10 + Cardinality(st.seen)) * 10
        + Len(st.outs)) * 10 + PcRank(st.pc)

\* A remote call of pass p returns: the step changes the pass's own record
\* (the notes that other requests and the remote drive leave on it aside).
Returns(p) ==
    /\ pass[p].pc \in Awaiting
    /\ [pass'[p] EXCEPT !.foreign = pass[p].foreign,
                        !.sinceFetch = pass[p].sinceFetch] # pass[p]

\* C23: the pages a pass requests form a chain from the cursor along the
\* next-page tokens and the pass stops after the first response without one;
\* every remote call that returns ends the pass or moves it strictly forward,
\* so that over a finite page chain the pass ends when every call returns.
C23_PageChainEnds ==
    /\ [](\A p \in Passes : IsPass(p) => PageChain(p) /\ Progress(pass[p]) < 100000)
    /\ [][\A p \in Passes :
            IsPass(p) /\ Returns(p) =>
                \/ pass'[p].pc \in Ended
                \/ Progress(pass'[p]) > Progress(pass[p])]_vars

\* A pass has completed after three pages.
C23_Witness ==
    \E p \in Passes :
        /\ Completed(p)
        /\ Len(pass[p].pages) = 3
        /\ Len(pass[p].fetched) = 3


\* The requests that fetched the starting cursor themselves, and the first
\* position the cursor was put at.
Initialized == {p \in Passes : pass[p].inits > 0}

FirstCursor ==
    CHOOSE t \in {pass[p].from : p \in Initialized} :
        \A p \in Initialized : t <= pass[p].from

\* C24: when no request is a registration, every entry of the log from the
\* first cursor position on that the cursor is beyond has been taken up by
\* some pass.
C24_NoEntryPassedOver ==
    (/\ \A p \in Passes : pass[p].kind # "register"
     /\ Initialized # {}) =>
        \A k \in 1..Len(feed) :
            FirstCursor <= k /\ k < lastPageToken =>
                \E p \in Passes : k \in Range(pass[p].evald)


\* C25: a registration call that was answered with an error, while no other
\* request wrote the cursor, leaves the cursor as it was when it was called.
C25_FailedRegistrationKeepsCursor ==
    \A p \in Passes :
        (/\ pass[p].kind = "register"
         /\ pass[p].pc \in Ended
         /\ pass[p].resp # <<200>>
         /\ ~pass[p].foreign) =>
            pass[p].endCursor = pass[p].callCursor


\* C26: the id of the file record is among the fields asked of changes.list,
\* and every entry for an audio file of the subtree that a pass has taken up
\* carried the id the pass tests.
C26_IdRequested ==
    \A p \in Passes : \A k \in Range(pass[p].evald) :
        feed[k].file \in QualifyingFiles =>
            /\ "id" \in ListFileFields
            /\ HasFileId(feed[k])

====
